---------------------------- MODULE Spec2Model ----------------------------
(***************************************************************************)
(* Model of src/bot.py: the Discord carousel view (CarouselView) and the   *)
(* Supabase webhook handler (WebhookBot.handle_webhook).                   *)
(*                                                                         *)
(* The bot runs on one asyncio event loop: a handler runs without          *)
(* interruption from one await to the next.  handle_webhook has one        *)
(* interesting await (channel.send); the button callbacks do all their     *)
(* work before their only await (interaction.response.edit_message).      *)
(***************************************************************************)
EXTENDS Integers, Sequences, FiniteSets, TLC

\* ------------------------------------------------------------------ bounds
MaxRequests == 2      \* webhook requests received in one run of the bot
MaxTracks   == 3      \* longest `tracks` array of a payload explored on its own
MaxImages   == 4      \* longest image list of a carousel explored on its own
MaxPresses  == 3      \* presses dispatched to one carousel explored concurrently

\* ------------------------------------------------- JSON values of a payload
\* A key that is not present in an object (dict.get then yields its default).
JAbsent == [t |-> "absent"]
\* JSON null (Python None).
JNull == [t |-> "null"]
JStr(s) == [t |-> "str", s |-> s]
JArr(items) == [t |-> "arr", items |-> items]

UrlStrings == {"", "a", "b"}
TitleStrings == {"T"}

\* a track object {"url": ...}; the url key may be missing
TrackObjects == [t : {"obj"}, url : {JAbsent} \cup {JStr(s) : s \in UrlStrings}]
\* an element of `tracks`: an object, or something that is no object
TrackValues == TrackObjects \cup {JNull}

SeqsUpTo(S, n) == UNION {[1..k -> S] : k \in 0..n}

TracksValues == {JAbsent, JNull} \cup {JArr(s) : s \in SeqsUpTo(TrackValues, MaxTracks)}

RecordObjects ==
    [t : {"obj"},
     title : {JAbsent} \cup {JStr(s) : s \in TitleStrings},
     tracks : TracksValues]

\* the parsed body: an object with an optional `record`, or a non-object
DataValues ==
    {JNull} \cup [t : {"obj"}, record : {JAbsent, JNull} \cup RecordObjects]

\* a request body: bytes that json.loads rejects, or a JSON document
Bodies == {[kind |-> "invalid"]} \cup [kind : {"json"}, data : DataValues]

\* Sample bodies, one or two per path of the handler, for runs with several
\* requests (every body of Bodies is explored for a single request).
Track(url) == [t |-> "obj", url |-> url]
Payload(title, tracks) ==
    [kind |-> "json",
     data |-> [t |-> "obj",
               record |-> [t |-> "obj", title |-> title, tracks |-> tracks]]]
SampleBodies ==
    { [kind |-> "invalid"],                                  \* not JSON
      [kind |-> "json", data |-> JNull],                     \* null
      [kind |-> "json", data |-> [t |-> "obj", record |-> JAbsent]],   \* {}
      [kind |-> "json", data |-> [t |-> "obj", record |-> JNull]],     \* {"record": null}
      Payload(JStr("T"), JAbsent),                           \* no tracks key
      Payload(JStr("T"), JNull),                             \* "tracks": null
      Payload(JStr("T"), JArr(<<>>)),                        \* "tracks": []
      Payload(JStr("T"), JArr(<<Track(JStr("")), Track(JAbsent)>>)),
      Payload(JStr("T"), JArr(<<JNull>>)),                   \* "tracks": [null]
      Payload(JAbsent, JArr(<<Track(JStr("a"))>>)),
      Payload(JStr("T"), JArr(<<Track(JStr("a")), Track(JAbsent), Track(JStr("b"))>>)) }

\* ------------------------------------------------------------ CarouselView
IndexError == [fault |-> "IndexError"]

\* Python list indexing images[i]: negative i counts from the end, anything
\* outside -len..len-1 raises IndexError.
PyIndexable(images, i) == i >= -Len(images) /\ i < Len(images)
PyIndex(images, i) ==
    IF i >= 0 THEN images[i + 1] ELSE images[Len(images) + i + 1]

update_button_state(v) ==
    [v EXCEPT !.back_disabled = (v.current_index = 0),
              !.next_disabled = (v.current_index = Len(v.images) - 1)]

\* mutant: the constructor forgets update_button_state()
CarouselView_without_update(images) ==
    [images |-> images, current_index |-> 0,
     back_disabled |-> FALSE, next_disabled |-> FALSE]

CarouselView(images) ==
    update_button_state([images |-> images, current_index |-> 0,
                         back_disabled |-> FALSE, next_disabled |-> FALSE])

\* the embed of the current index, or IndexError when images[current_index] raises
get_embed(v) ==
    IF ~PyIndexable(v.images, v.current_index) THEN IndexError
    ELSE [title |-> [text |-> "Image Gallery", position |-> v.current_index + 1,
                    total |-> Len(v.images)],
          image |-> PyIndex(v.images, v.current_index),
          footer |-> "Use buttons to navigate"]

\* what a button callback hands to interaction.response.edit_message
NoEdit == [kind |-> "none"]
EditMessage(v) ==
    [kind |-> "edit", embed |-> get_embed(v),
     back_disabled |-> v.back_disabled, next_disabled |-> v.next_disabled]

\* mutant: Back guarded one too high (current_index > 1)
back_button_off_by_one(v) ==
    IF v.current_index > 1
    THEN LET w == update_button_state([v EXCEPT !.current_index = @ - 1])
         IN  [view |-> w, edit |-> EditMessage(w)]
    ELSE [view |-> v, edit |-> NoEdit]

\* mutant: Back at the first item still answers the interaction with an edit
back_button_always_ack(v) ==
    IF v.current_index > 0
    THEN LET w == update_button_state([v EXCEPT !.current_index = @ - 1])
         IN  [view |-> w, edit |-> EditMessage(w)]
    ELSE [view |-> v, edit |-> EditMessage(v)]

\* mutant: Back renders the embed and reads the flags before it moves the index
back_button_stale_edit(v) ==
    IF v.current_index > 0
    THEN [view |-> update_button_state([v EXCEPT !.current_index = @ - 1]),
          edit |-> EditMessage(v)]
    ELSE [view |-> v, edit |-> NoEdit]

\* back_button callback: the view after the press and the edit it issues
back_button(v) ==
    IF v.current_index > 0
    THEN LET w == update_button_state([v EXCEPT !.current_index = @ - 1])
         IN  [view |-> w, edit |-> EditMessage(w)]
    ELSE [view |-> v, edit |-> NoEdit]

\* mutant: Next without its guard
next_button_unguarded(v) ==
    LET w == update_button_state([v EXCEPT !.current_index = @ + 1])
    IN  [view |-> w, edit |-> EditMessage(w)]

\* mutant: Next wraps round to the first item
next_button_wrapping(v) ==
    LET w == update_button_state(
                 [v EXCEPT !.current_index = (@ + 1) % Len(v.images)])
    IN  [view |-> w, edit |-> EditMessage(w)]

\* mutant: Next moves the index and leaves the button flags as they were
next_button_stale_flags(v) ==
    IF v.current_index < Len(v.images) - 1
    THEN LET w == [v EXCEPT !.current_index = @ + 1]
         IN  [view |-> w, edit |-> EditMessage(w)]
    ELSE [view |-> v, edit |-> NoEdit]

\* mutant: Next steps over an item when it can
next_button_skipping(v) ==
    IF v.current_index < Len(v.images) - 1
    THEN LET w == update_button_state(
                     [v EXCEPT !.current_index =
                          IF @ + 2 <= Len(v.images) - 1 THEN @ + 2 ELSE @ + 1])
         IN  [view |-> w, edit |-> EditMessage(w)]
    ELSE [view |-> v, edit |-> NoEdit]

\* mutant: Next stops one item before the last
next_button_stops_short(v) ==
    IF v.current_index < Len(v.images) - 2
    THEN LET w == update_button_state([v EXCEPT !.current_index = @ + 1])
         IN  [view |-> w, edit |-> EditMessage(w)]
    ELSE [view |-> v, edit |-> NoEdit]

\* next_button callback
next_button(v) ==
    IF v.current_index < Len(v.images) - 1
    THEN LET w == update_button_state([v EXCEPT !.current_index = @ + 1])
         IN  [view |-> w, edit |-> EditMessage(w)]
    ELSE [view |-> v, edit |-> NoEdit]

\* ------------------------------------------------- webhook verification
SUPABASE_JWT_SECRET == "jwt-secret"
OtherKeys == {"other-key"}

\* HMAC-SHA256 hex digest, idealised: digests agree only for the same key and
\* the same message
Hmac(key, msg) == [t |-> "sig", key |-> key, msg |-> msg]

\* the x-supabase-signature header a request may carry for a body
Headers(body) ==
    {JAbsent} \cup {Hmac(k, body) : k \in {SUPABASE_JWT_SECRET} \cup OtherKeys}

verify_supabase_signature(request_body, signature_header) ==
    IF SUPABASE_JWT_SECRET = "" \/ signature_header = JAbsent THEN FALSE
    ELSE Hmac(SUPABASE_JWT_SECRET, request_body) = signature_header

\* --------------------------------------------------------- handle_webhook
Raised == [t |-> "raised"]

\* Python truthiness of dict.get's result (a missing key yields None)
Truthy(j) ==
    CASE j.t = "str" -> j.s # ""
      [] j.t = "arr" -> j.items # <<>>
      [] j.t = "obj" -> TRUE
      [] OTHER -> FALSE

\* json.loads(body_bytes.decode('utf-8'))
json_loads(body) == IF body.kind = "invalid" THEN Raised ELSE body.data

\* data.get('record', {}): AttributeError unless data is an object
EmptyObject == [t |-> "obj", title |-> JAbsent, tracks |-> JAbsent]
\* mutant: data['record'] instead of data.get('record', {})
get_record_required(data) ==
    IF data.t # "obj" THEN Raised
    ELSE IF data.record = JAbsent THEN Raised ELSE data.record

get_record(data) ==
    IF data.t # "obj" THEN Raised
    ELSE IF data.record = JAbsent THEN EmptyObject ELSE data.record

\* record.get('tracks', []): AttributeError unless record is an object
get_tracks(record) ==
    IF record.t # "obj" THEN Raised
    ELSE IF record.tracks = JAbsent THEN JArr(<<>>) ELSE record.tracks

RECURSIVE UrlsOf(_)
UrlsOf(items) ==
    IF items = <<>> THEN <<>>
    ELSE IF Truthy(Head(items).url) THEN <<Head(items).url.s>> \o UrlsOf(Tail(items))
    ELSE UrlsOf(Tail(items))

RECURSIVE UrlKeysOf(_)
UrlKeysOf(items) ==
    IF items = <<>> THEN <<>>
    ELSE IF Head(items).url.t = "str" THEN <<Head(items).url.s>> \o UrlKeysOf(Tail(items))
    ELSE UrlKeysOf(Tail(items))

\* mutant: keeps every track that has a url key, empty or not
extract_urls_key_present(tracks) ==
    IF tracks.t # "arr" THEN Raised
    ELSE IF \E i \in 1..Len(tracks.items) : tracks.items[i].t # "obj" THEN Raised
    ELSE [t |-> "list", items |-> UrlKeysOf(tracks.items)]

\* the comprehension collecting the URLs last track first
extract_urls_reversed(tracks) ==
    IF tracks.t # "arr" THEN Raised
    ELSE IF \E i \in 1..Len(tracks.items) : tracks.items[i].t # "obj" THEN Raised
    ELSE [t |-> "list",
          items |-> [i \in 1..Len(UrlsOf(tracks.items)) |->
                       UrlsOf(tracks.items)[Len(UrlsOf(tracks.items)) + 1 - i]]]

\* [t.get('url') for t in tracks if t.get('url')]: TypeError when tracks is
\* None, AttributeError when an element is no object
extract_urls(tracks) ==
    IF tracks.t # "arr" THEN Raised
    ELSE IF \E i \in 1..Len(tracks.items) : tracks.items[i].t # "obj" THEN Raised
    ELSE [t |-> "list", items |-> UrlsOf(tracks.items)]

\* record.get('title', 'Untitled') as formatted into the f-string
get_title(record) ==
    CASE record.title = JAbsent -> "Untitled"
      [] record.title = JNull -> "None"
      [] OTHER -> record.title.s

NoReturn == [kind |-> "none"]
Response(status, text) == [kind |-> "response", status |-> status, text |-> text]
NoView == [kind |-> "none"]
NoEmbed == [kind |-> "none"]

\* a finished handler that built no view
Finished(body, sig, urls, channel, response) ==
    [body |-> body, signature_header |-> sig, pc |-> "done",
     thumbnail_urls |-> urls, channel |-> channel, view |-> NoView,
     embed |-> NoEmbed, stored |-> FALSE, response |-> response]

InternalError(body, sig, urls, channel) ==
    Finished(body, sig, urls, channel, Response(500, "Internal Error"))

\* handle_webhook from its entry up to `await channel.send(...)`, or to its
\* return when it does not get that far.  `channel` is what
\* self.get_channel(TARGET_CHANNEL_ID) yields for this request, "channel" or
\* "none" (None); it is recorded with the request whether or not the handler
\* gets as far as asking for it.
handle_webhook(body, sig, channel) ==
    LET data == json_loads(body)
        record == IF data = Raised THEN Raised ELSE get_record(data)
        tracks == IF record = Raised THEN Raised ELSE get_tracks(record)
        thumbnail_urls == IF tracks = Raised THEN Raised ELSE extract_urls(tracks)
    IN  IF thumbnail_urls = Raised THEN InternalError(body, sig, <<>>, channel)
        ELSE IF thumbnail_urls.items = <<>>   \* `if not thumbnail_urls:`
        THEN Finished(body, sig, <<>>, channel, Response(200, "No tracks found"))
        ELSE IF channel = "channel"
        THEN LET view == CarouselView(thumbnail_urls.items)
                 embed == get_embed(view)
             IN  IF embed = IndexError
                 THEN [InternalError(body, sig, thumbnail_urls.items, channel)
                          EXCEPT !.view = view]
                 ELSE [body |-> body, signature_header |-> sig, pc |-> "send",
                       thumbnail_urls |-> thumbnail_urls.items, channel |-> channel,
                       view |-> view,
                       embed |-> [embed EXCEPT !.title = [text |-> "New Project", name |-> get_title(record)]],
                       stored |-> FALSE, response |-> NoReturn]
        ELSE \* `if channel:` is false and nothing follows it: the handler returns None
             Finished(body, sig, thumbnail_urls.items, channel, NoReturn)

\* ------------------------------------------------------------------ state
VARIABLES
    requests,       \* one record per webhook request received, in arrival order
    channel_log,    \* messages delivered to the target channel, in order
    interaction     \* the most recent button press and the edit it issued

vars == <<requests, channel_log, interaction>>

NoInteraction == [request |-> 0, button |-> "none", edit |-> NoEdit]

Init ==
    /\ requests = <<>>
    /\ channel_log = <<>>
    /\ interaction = NoInteraction

\* get_channel reads the client's cache: the channel object or None
ChannelOutcomes == {"channel", "none"}

\* a POST /webhook with a body of `bodies` arrives and handle_webhook runs up
\* to its first suspension
ReceiveFrom(bodies) ==
    /\ \E body \in bodies : \E sig \in Headers(body) : \E channel \in ChannelOutcomes :
          requests' = Append(requests, handle_webhook(body, sig, channel))
    /\ UNCHANGED <<channel_log, interaction>>

Receive ==
    /\ Len(requests) < MaxRequests
    /\ ReceiveFrom(SampleBodies)

\* the message channel.send(embed=embed, view=view) posts for handler h of request r
Message(r, h) ==
    [request |-> r, embed |-> h.embed,
     back_disabled |-> h.view.back_disabled, next_disabled |-> h.view.next_disabled]

\* handler h after channel.send returned: the view is stored for interaction
\* dispatch and the handler returns "Carousel sent" (status 200 by default)
Delivered(h) ==
    [h EXCEPT !.pc = "done", !.stored = TRUE,
              !.response = Response(200, "Carousel sent")]

\* channel.send succeeded
SendOk(r) ==
    /\ requests[r].pc = "send"
    /\ channel_log' = Append(channel_log, Message(r, requests[r]))
    /\ requests' = [requests EXCEPT ![r] = Delivered(requests[r])]
    /\ UNCHANGED interaction

\* channel.send raised (HTTPException, Forbidden, ...): caught by `except Exception`
SendFail(r) ==
    /\ requests[r].pc = "send"
    /\ requests' = [requests EXCEPT ![r].pc = "done",
                                    ![r].response = Response(500, "Internal Error")]
    /\ UNCHANGED <<channel_log, interaction>>

\* mutant: current_index kept on the class, so Back on one message moves
\* every stored carousel
PressBack_shared_index(r) ==
    /\ requests[r].stored
    /\ requests' = [q \in 1..Len(requests) |->
                      IF requests[q].stored
                      THEN [requests[q] EXCEPT !.view = back_button(@).view]
                      ELSE requests[q]]
    /\ interaction' = [request |-> r, button |-> "back",
                       edit |-> back_button(requests[r].view).edit]
    /\ UNCHANGED channel_log

\* a viewer presses Back on the message of request r
PressBack(r) ==
    /\ requests[r].stored
    /\ LET res == back_button(requests[r].view)
       IN  /\ requests' = [requests EXCEPT ![r].view = res.view]
           /\ interaction' = [request |-> r, button |-> "back", edit |-> res.edit]
    /\ UNCHANGED channel_log

\* a viewer presses Next on the message of request r
PressNext(r) ==
    /\ requests[r].stored
    /\ LET res == next_button(requests[r].view)
       IN  /\ requests' = [requests EXCEPT ![r].view = res.view]
           /\ interaction' = [request |-> r, button |-> "next", edit |-> res.edit]
    /\ UNCHANGED channel_log

Next ==
    \/ Receive
    \/ \E r \in 1..Len(requests) : SendOk(r)
    \/ \E r \in 1..Len(requests) : SendFail(r)
    \/ \E r \in 1..Len(requests) : PressBack(r)
    \/ \E r \in 1..Len(requests) : PressNext(r)

Spec == Init /\ [][Next]_vars


\* -------------------------------------------- one request, explored alone
\* The bot receives a single POST /webhook, with any body of Bodies, any
\* signature header and either channel outcome; then its send and the
\* presses on its carousel.
ReceiveFirst ==
    /\ requests = <<>>
    /\ ReceiveFrom(Bodies)

NextRequest ==
    \/ ReceiveFirst
    \/ \E r \in 1..Len(requests) : SendOk(r)
    \/ \E r \in 1..Len(requests) : SendFail(r)
    \/ \E r \in 1..Len(requests) : PressBack(r)
    \/ \E r \in 1..Len(requests) : PressNext(r)

SpecRequest == Init /\ [][NextRequest]_vars

\* ------------------------------------------- one carousel, explored alone
\* The states right after a webhook delivered a carousel for `images`, for
\* every non-empty image list up to MaxImages; from there only button presses.
ImageUrls == {"a", "b"}
ImageLists == UNION {[1..k -> ImageUrls] : k \in 1..MaxImages}

BodyOf(images) ==
    [kind |-> "json",
     data |-> [t |-> "obj",
               record |-> [t |-> "obj", title |-> JAbsent,
                           tracks |-> JArr([i \in 1..Len(images) |->
                                              [t |-> "obj", url |-> JStr(images[i])]])]]]

InitCarousel ==
    \E images \in ImageLists :
        LET body == BodyOf(images)
            h == handle_webhook(body, Hmac(SUPABASE_JWT_SECRET, body), "channel")
        IN  /\ requests = <<Delivered(h)>>
            /\ channel_log = <<Message(1, h)>>
            /\ interaction = NoInteraction

NextCarousel ==
    \/ \E r \in 1..Len(requests) : PressBack(r)
    \/ \E r \in 1..Len(requests) : PressNext(r)

SpecCarousel == InitCarousel /\ [][NextCarousel]_vars


\* ------------------------------------- concurrent presses on one carousel
\* Several viewers press buttons of the same message. discord.py starts one
\* task per interaction; a task runs its callback up to the await of
\* edit_message without interruption, and is resumed when the edit is done.
\* `interaction` holds here, besides the edit the message shows, the presses
\* whose task has not run yet (arrived), the edits that are in flight
\* (awaiting) and the order in which the callbacks ran (log).
NoPresses ==
    [request |-> 0, button |-> "none", edit |-> NoEdit,
     arrived |-> <<>>, awaiting |-> <<>>, log |-> <<>>]

InitPresses ==
    \E images \in ImageLists :
        LET body == BodyOf(images)
            h == handle_webhook(body, Hmac(SUPABASE_JWT_SECRET, body), "channel")
        IN  /\ requests = <<Delivered(h)>>
            /\ channel_log = <<Message(1, h)>>
            /\ interaction = NoPresses

Without(seq, k) == [i \in 1..(Len(seq) - 1) |-> IF i < k THEN seq[i] ELSE seq[i + 1]]

\* a viewer presses `button` on the message of request r; `seen` is the index
\* the carousel has at that moment
PressArrives(r, button) ==
    /\ requests[r].stored
    /\ Len(interaction.arrived) + Len(interaction.log) < MaxPresses
    /\ interaction' = [interaction EXCEPT !.arrived =
           Append(@, [id |-> Len(interaction.arrived) + Len(interaction.log) + 1,
                      button |-> button,
                      seen |-> requests[r].view.current_index])]
    /\ UNCHANGED <<requests, channel_log>>

\* mutant: the callback moves from the index its viewer saw, not from the
\* index the carousel has when it runs
RunCallback_from_seen(r, k) ==
    /\ k \in 1..Len(interaction.arrived)
    /\ LET press == interaction.arrived[k]
           seen == [requests[r].view EXCEPT !.current_index = press.seen]
           res == IF press.button = "back" THEN back_button(seen)
                  ELSE next_button(seen)
       IN  /\ requests' = [requests EXCEPT ![r].view = res.view]
           /\ interaction' = [interaction EXCEPT
                  !.request = r,
                  !.button = press.button,
                  !.arrived = Without(@, k),
                  !.awaiting = IF res.edit = NoEdit THEN @ ELSE Append(@, res.edit),
                  !.log = Append(@, [id |-> press.id, button |-> press.button])]
    /\ UNCHANGED channel_log

\* the task of the k-th waiting press runs its callback up to the await
RunCallback(r, k) ==
    /\ k \in 1..Len(interaction.arrived)
    /\ LET press == interaction.arrived[k]
           res == IF press.button = "back" THEN back_button(requests[r].view)
                  ELSE next_button(requests[r].view)
       IN  /\ requests' = [requests EXCEPT ![r].view = res.view]
           /\ interaction' = [interaction EXCEPT
                  !.request = r,
                  !.button = press.button,
                  !.arrived = Without(@, k),
                  !.awaiting = IF res.edit = NoEdit THEN @ ELSE Append(@, res.edit),
                  !.log = Append(@, [id |-> press.id, button |-> press.button])]
    /\ UNCHANGED channel_log

\* the k-th edit in flight is done: the message shows it and its task ends
EditDone(k) ==
    /\ k \in 1..Len(interaction.awaiting)
    /\ interaction' = [interaction EXCEPT !.edit = interaction.awaiting[k],
                                          !.awaiting = Without(@, k)]
    /\ UNCHANGED <<requests, channel_log>>

NextPresses ==
    \/ \E r \in 1..Len(requests) : PressArrives(r, "back")
    \/ \E r \in 1..Len(requests) : PressArrives(r, "next")
    \/ \E r \in 1..Len(requests) : \E k \in 1..MaxPresses : RunCallback(r, k)
    \/ \E k \in 1..MaxPresses : EditDone(k)

SpecPresses == InitPresses /\ [][NextPresses]_vars


\* ------------------------------------------- paging through one carousel
\* A viewer of one delivered carousel presses Next, and nothing but Next,
\* until a press is handled at the last item; from then on the viewer presses
\* Back and nothing but Back. Every press made is handled: the event loop
\* runs the callback of each dispatched interaction.
PageForward(r) ==
    /\ interaction.button # "back"
    /\ PressNext(r)

PageBack(r) ==
    /\ \/ interaction.button = "back"
       \/ interaction.button = "next" /\ interaction.edit = NoEdit
    /\ PressBack(r)

NextPaging ==
    \/ PageForward(1)
    \/ PageBack(1)

SpecPaging ==
    /\ InitCarousel
    /\ [][NextPaging]_vars
    /\ WF_vars(PageForward(1))
    /\ WF_vars(PageBack(1))


\* ------------------------------------------------------------ properties
\* requests whose handler constructed a CarouselView
WithView == {r \in 1..Len(requests) : requests[r].view # NoView}
Idx(r) == requests[r].view.current_index
N(r) == Len(requests[r].view.images)
\* the step handled a press of `button` on the carousel of request r
\* (a press that changes nothing at all is a stuttering step)
Pressed(r, button) ==
    /\ interaction'.request = r
    /\ interaction'.button = button
    /\ requests'[r].view # requests[r].view \/ interaction' # interaction

IndexInRange == \A r \in WithView : 0 <= Idx(r) /\ Idx(r) <= N(r) - 1

NoWrap ==
    \A r \in WithView :
        /\ Pressed(r, "next") /\ Idx(r) = N(r) - 1 => requests'[r].view.current_index = N(r) - 1
        /\ Pressed(r, "back") /\ Idx(r) = 0 => requests'[r].view.current_index = 0
        /\ Len(requests'[r].view.images) = N(r)

\* C1: with N >= 1 items the current index stays within 0..N-1 after any
\* sequence of Back and Next presses, and a press at a boundary never wraps
\* the index round to the other end.
C1_IndexStaysInRange == [](IndexInRange) /\ [][NoWrap]_vars

\* C1 witness: Next was pressed again at the last item of a carousel of three or
\* more items that had been paged to its end
C1_Witness ==
    \E r \in WithView :
        /\ N(r) >= 3 /\ Idx(r) = N(r) - 1
        /\ interaction = [request |-> r, button |-> "next", edit |-> NoEdit]

\* C2: in every reachable carousel state Back is enabled exactly when
\* index > 0 and Next is enabled exactly when index < length - 1.
C2_FlagsAgreeWithIndex ==
    \A r \in WithView :
        /\ (~requests[r].view.back_disabled) <=> (Idx(r) > 0)
        /\ (~requests[r].view.next_disabled) <=> (Idx(r) < N(r) - 1)

\* C2 witness: a press brought a carousel to an interior index, both buttons enabled
C2_Witness ==
    \E r \in WithView :
        /\ 0 < Idx(r) /\ Idx(r) < N(r) - 1
        /\ interaction.request = r /\ interaction.edit # NoEdit
        /\ ~requests[r].view.back_disabled /\ ~requests[r].view.next_disabled

\* C3: immediately after construction from N >= 1 items the index is 0 (so
\* 0 <= index < N), Back is disabled and Next is enabled iff N > 1.
C3_AfterConstruction ==
    \A r \in WithView :
        (~requests[r].stored \/ interaction = NoInteraction) =>
            /\ N(r) >= 1
            /\ Idx(r) = 0 /\ Idx(r) < N(r)
            /\ requests[r].view.back_disabled
            /\ (~requests[r].view.next_disabled) <=> (N(r) > 1)

\* C3 witness: a handler has just built the view of a two-item carousel and
\* not yet sent it
C3_Witness ==
    \E r \in WithView :
        /\ requests[r].pc = "send" /\ N(r) = 2
        /\ ~requests[r].view.next_disabled

\* C4: a Next press handled at index N-1 leaves the index (and the whole view)
\* unchanged, however often it is repeated; so does a Back press at index 0.
C4_BoundaryPressIsNoOp ==
    [][\A r \in WithView :
          /\ Pressed(r, "next") /\ Idx(r) = N(r) - 1 => requests'[r].view = requests[r].view
          /\ Pressed(r, "back") /\ Idx(r) = 0 => requests'[r].view = requests[r].view]_vars

\* C4 witness: Back was pressed at index 0 of a carousel of several items
C4_Witness ==
    \E r \in WithView :
        /\ N(r) >= 2 /\ Idx(r) = 0
        /\ interaction = [request |-> r, button |-> "back", edit |-> NoEdit]

\* C5: from any reachable carousel state with index < N-1, Next then Back
\* restores index and button flags; with index > 0, Back then Next does.
C5_NextBackRoundTrip ==
    \A r \in WithView :
        LET v == requests[r].view
        IN  /\ v.current_index < Len(v.images) - 1 =>
                /\ next_button(v).view.current_index = v.current_index + 1
                /\ back_button(next_button(v).view).view = v
            /\ v.current_index > 0 =>
                /\ back_button(v).view.current_index = v.current_index - 1
                /\ next_button(back_button(v).view).view = v

\* C5 witness: an interior index reached by pressing Next twice and then Back
C5_Witness ==
    \E r \in WithView :
        /\ N(r) = 3 /\ Idx(r) = 1
        /\ interaction.request = r /\ interaction.button = "back"
        /\ interaction.edit # NoEdit


\* ---- webhook properties
Requests == 1..Len(requests)
Sent(r) == \E i \in 1..Len(channel_log) : channel_log[i].request = r
IsObject(j) == j.t = "obj"
\* a track object carrying a non-empty url
HasUrl(track) == IsObject(track) /\ track.url.t = "str" /\ track.url.s # ""
\* the body parses to an object holding a `record` object
HasRecord(body) ==
    body.kind = "json" /\ IsObject(body.data) /\ IsObject(body.data.record)

\* C6: a request whose signature header is missing or does not match is
\* answered "unauthorized" (401) without parsing the payload, and sends nothing.
C6_UnauthorizedRejected ==
    \A r \in Requests :
        ~verify_supabase_signature(requests[r].body, requests[r].signature_header) =>
            /\ requests[r].pc = "done"
            /\ requests[r].response.kind = "response"
            /\ requests[r].response.status = 401
            /\ requests[r].view = NoView
            /\ ~Sent(r)

\* C7: every finished handle_webhook call has returned an HTTP response, on
\* every path; an unresolvable channel ends in a reported error.
C7_AlwaysReturnsResponse ==
    \A r \in Requests :
        requests[r].pc = "done" =>
            /\ requests[r].response.kind = "response"
            /\ (requests[r].thumbnail_urls # <<>> /\ requests[r].channel = "none")
                  => requests[r].response.status >= 400

\* the body fails JSON parsing, or its JSON holds no `record` object
Malformed(body) == ~HasRecord(body)
\* ... and specifically: a JSON object in which the `record` key is missing
RecordMissing(body) ==
    body.kind = "json" /\ IsObject(body.data) /\ body.data.record = JAbsent
\* a payload with a record and a clean track list holding at least one URL
Deliverable(body) ==
    /\ HasRecord(body)
    /\ body.data.record.tracks.t = "arr"
    /\ \A i \in 1..Len(body.data.record.tracks.items) :
           IsObject(body.data.record.tracks.items[i])
    /\ \E i \in 1..Len(body.data.record.tracks.items) :
           HasUrl(body.data.record.tracks.items[i])
\* requests after request r are handled as if r had never come
LaterHandled(r) ==
    \A q \in Requests :
        (q > r /\ Deliverable(requests[q].body) /\ requests[q].channel = "channel") =>
            /\ requests[q].view # NoView
            /\ requests[q].pc = "done" =>
                  requests[q].response \in {Response(200, "Carousel sent"),
                                            Response(500, "Internal Error")}
            /\ requests[q].response = Response(200, "Carousel sent") => Sent(q)

\* C8 as claimed: a body that fails JSON parsing or lacks a `record` object
\* gets an error response, sends nothing, and later requests are handled.
C8_MalformedIsError ==
    \A r \in Requests :
        Malformed(requests[r].body) =>
            /\ requests[r].pc = "done"
            /\ requests[r].response.kind = "response"
            /\ requests[r].response.status >= 400
            /\ requests[r].view = NoView /\ ~Sent(r)
            /\ LaterHandled(r)

\* C8 amended: such a request ends at once and sends nothing; it is answered
\* 500 "Internal Error", except that a JSON object with no `record` key is
\* treated as a record without tracks and answered 200 "No tracks found";
\* later requests are handled normally.
C8_MalformedReported ==
    \A r \in Requests :
        Malformed(requests[r].body) =>
            /\ requests[r].pc = "done"
            /\ requests[r].response =
                  IF RecordMissing(requests[r].body)
                  THEN Response(200, "No tracks found")
                  ELSE Response(500, "Internal Error")
            /\ requests[r].view = NoView /\ ~Sent(r)
            /\ LaterHandled(r)

\* C8 witness: a request without `record` was answered, and the next request
\* delivered its carousel
C8_Witness ==
    /\ Len(requests) = 2
    /\ RecordMissing(requests[1].body)
    /\ requests[1].response = Response(200, "No tracks found")
    /\ requests[2].response = Response(200, "Carousel sent") /\ Sent(2)

\* the record's `tracks` is absent, empty, or holds no track with a URL
NoTrackWithUrl(body) ==
    /\ HasRecord(body)
    /\ \/ body.data.record.tracks = JAbsent
       \/ /\ body.data.record.tracks.t = "arr"
          /\ \A i \in 1..Len(body.data.record.tracks.items) :
                 ~HasUrl(body.data.record.tracks.items[i])

\* C9: when `tracks` is empty, absent, or holds no track with a URL, no
\* carousel message is sent and no carousel state is created for the request.
C9_NoCarouselWithoutUrl ==
    \A r \in Requests :
        NoTrackWithUrl(requests[r].body) =>
            /\ requests[r].view = NoView
            /\ ~requests[r].stored
            /\ ~Sent(r)
            /\ requests[r].pc = "done"

\* C9 witness: a request whose only tracks carry an empty or no url was
\* answered "No tracks found" while the channel was available
C9_Witness ==
    \E r \in Requests :
        /\ HasRecord(requests[r].body)
        /\ requests[r].body.data.record.tracks.t = "arr"
        /\ Len(requests[r].body.data.record.tracks.items) = 2
        /\ requests[r].body.data.record.tracks.items[1] = [t |-> "obj", url |-> JStr("")]
        /\ requests[r].body.data.record.tracks.items[2] = [t |-> "obj", url |-> JAbsent]
        /\ requests[r].channel = "channel"
        /\ requests[r].response = Response(200, "No tracks found")

\* C10: with `tracks: []` and a resolvable channel, the briefing message is
\* still sent to the channel.
C10_BriefingSentWithoutTracks ==
    \A r \in Requests :
        (/\ HasRecord(requests[r].body)
         /\ requests[r].body.data.record.tracks = JArr(<<>>)
         /\ requests[r].channel = "channel"
         /\ requests[r].pc = "done") => Sent(r)


\* ---------------------------------------- the view class, explored alone
\* CarouselView constructed directly (not through handle_webhook, which
\* returns before constructing a view of no images) from the URLs that
\* survive the filter, for every list of track objects up to MaxTracks;
\* then renders and presses.
Constructed(items) ==
    [body |-> Payload(JAbsent, JArr(items)), signature_header |-> JAbsent,
     pc |-> "done", thumbnail_urls |-> UrlsOf(items), channel |-> "channel",
     view |-> CarouselView(UrlsOf(items)), embed |-> NoEmbed,
     stored |-> TRUE, response |-> NoReturn]

Construct ==
    /\ requests = <<>>
    /\ \E items \in SeqsUpTo(TrackObjects, MaxTracks) :
          requests' = <<Constructed(items)>>
    /\ UNCHANGED <<channel_log, interaction>>

\* mutant: a get_embed that steps to the next item each time it is called
Render_advancing(r) ==
    /\ requests[r].view # NoView
    /\ interaction' = [request |-> r, button |-> "render",
                       edit |-> [kind |-> "render", embed |-> get_embed(requests[r].view)]]
    /\ requests' = [requests EXCEPT ![r].view.current_index =
                       IF @ < Len(requests[r].view.images) - 1 THEN @ + 1 ELSE @]
    /\ UNCHANGED channel_log

\* a call of view.get_embed(): its result, and nothing else, is new
Render(r) ==
    /\ requests[r].view # NoView
    /\ interaction' = [request |-> r, button |-> "render",
                       edit |-> [kind |-> "render", embed |-> get_embed(requests[r].view)]]
    /\ UNCHANGED <<requests, channel_log>>

NextView ==
    \/ Construct
    \/ \E r \in 1..Len(requests) : Render(r)
    \/ \E r \in 1..Len(requests) : PressBack(r)
    \/ \E r \in 1..Len(requests) : PressNext(r)

SpecView == Init /\ [][NextView]_vars

\* C11: a carousel constructed from items that all lack a URL has zero
\* items, its render is a "no items" display and not a fault, and neither
\* button moves the index.
C11_EmptyCarouselRenders ==
    \A r \in WithView :
        (/\ requests[r].body.data.record.tracks.items # <<>>
         /\ requests[r].view.images = <<>>) =>
            /\ get_embed(requests[r].view) # IndexError
            /\ (interaction.request = r /\ interaction.button = "render")
                  => interaction.edit.embed # IndexError
            /\ back_button(requests[r].view).view.current_index = Idx(r)
            /\ next_button(requests[r].view).view.current_index = Idx(r)

\* the URLs of the tracks of request r's payload that carry a non-empty url,
\* in the order of the payload
PayloadUrls(r) ==
    LET kept == SelectSeq(requests[r].body.data.record.tracks.items, HasUrl)
    IN  [i \in 1..Len(kept) |-> kept[i].url.s]

\* C12: a carousel holds exactly the URLs of the payload's tracks that have a
\* non-empty url, in payload order, and no press ever changes that sequence.
C12_ItemsAreThePayloadUrls ==
    /\ [](\A r \in WithView : requests[r].view.images = PayloadUrls(r))
    /\ [][\A r \in WithView : requests'[r].view.images = requests[r].view.images]_vars

\* a payload of three tracks, the middle one without URL, after a press of Next
C12_Witness ==
    /\ Len(requests) = 1
    /\ requests[1].view # NoView
    /\ Len(requests[1].body.data.record.tracks.items) = 3
    /\ requests[1].body.data.record.tracks.items[2].url = JStr("")
    /\ requests[1].view.images = <<"a", "b">>
    /\ Idx(1) = 1
    /\ interaction.button = "next"

\* the display of item i (0-based) of request r's carousel, written out from
\* the item list alone
DisplayOf(r, i) ==
    [kind |-> "edit",
     embed |-> [title |-> [text |-> "Image Gallery", position |-> i + 1, total |-> N(r)],
                image |-> requests[r].view.images[i + 1],
                footer |-> "Use buttons to navigate"],
     back_disabled |-> (i = 0),
     next_disabled |-> (i = N(r) - 1)]

\* C13: a press mutates, renders and acknowledges in one step: the edit it
\* submits is the display and the button flags of the index that very press
\* produced.
C13_EditShowsTheNewIndex ==
    [][\A r \in WithView : \A b \in {"back", "next"} :
          (Pressed(r, b) /\ interaction'.edit # NoEdit) =>
              /\ requests'[r].view.current_index \in 0..(N(r) - 1)
              /\ interaction'.edit = DisplayOf(r, requests'[r].view.current_index)]_vars

\* Back pressed on the last of four items: the edit shows item 3 of 4
C13_Witness ==
    /\ 1 \in WithView
    /\ N(1) = 4
    /\ Idx(1) = 2
    /\ interaction.button = "back"
    /\ interaction.edit = DisplayOf(1, 2)

\* C14: carousels of different requests are independent: a step changes the
\* index, the items or the button flags of a carousel only when it is a press
\* on that very carousel.
C14_CarouselsAreIndependent ==
    [][\A q \in WithView :
          requests'[q].view # requests[q].view =>
              /\ interaction'.request = q
              /\ interaction'.button \in {"back", "next"}
              /\ \A o \in WithView \ {q} : requests'[o].view = requests[o].view]_vars

\* two delivered carousels of two items each; the first was paged back to its
\* first item while the second stays on its last
C14_Witness ==
    /\ Len(requests) = 2
    /\ requests[1].stored /\ requests[2].stored
    /\ N(1) = 2 /\ N(2) = 2
    /\ Idx(1) = 0 /\ Idx(2) = 1
    /\ interaction.request = 1
    /\ interaction.button = "back"
    /\ interaction.edit # NoEdit

\* C15: get_embed is pure: a call leaves the carousel (and everything else)
\* as it was, a second call right after the first returns the same value, and
\* on a non-empty carousel the value shows position index+1 of N with the
\* item at the index.
C15_RenderIsPure ==
    [][\A r \in WithView :
          (interaction'.request = r /\ interaction'.button = "render") =>
              /\ requests' = requests
              /\ channel_log' = channel_log
              /\ (interaction.request = r /\ interaction.button = "render")
                    => interaction'.edit = interaction.edit
              /\ N(r) >= 1 =>
                    interaction'.edit.embed = DisplayOf(r, Idx(r)).embed]_vars

\* the second of three items rendered
C15_Witness ==
    /\ 1 \in WithView
    /\ N(1) = 3
    /\ Idx(1) = 1
    /\ interaction.button = "render"
    /\ interaction.edit.embed = DisplayOf(1, 1).embed

\* the messages in the channel that came from request r
MessagesOf(r) == {i \in 1..Len(channel_log) : channel_log[i].request = r}

\* C16: a request with at least one valid track whose channel resolves (and
\* whose send went through) has put exactly one message in the channel, and
\* that message carries the carousel's render for index 0, position text
\* included, with Back disabled and Next enabled iff N > 1.
C16_FirstMessageIsRenderAtZero ==
    \A r \in Requests :
        requests[r].stored =>
            /\ Cardinality(MessagesOf(r)) = 1
            /\ \A i \in MessagesOf(r) :
                  /\ channel_log[i].embed = DisplayOf(r, 0).embed
                  /\ channel_log[i].back_disabled
                  /\ channel_log[i].next_disabled = ~(N(r) > 1)

\* C17: a press moves the index by exactly one: Next handled at i < N-1 gives
\* i+1, Back handled at i > 0 gives i-1, and no press moves the index by more
\* than one or against its direction.
C17_PressMovesByOne ==
    [][\A r \in WithView :
          /\ (Pressed(r, "next") /\ Idx(r) < N(r) - 1)
                => requests'[r].view.current_index = Idx(r) + 1
          /\ (Pressed(r, "back") /\ Idx(r) > 0)
                => requests'[r].view.current_index = Idx(r) - 1
          /\ Pressed(r, "next")
                => requests'[r].view.current_index \in {Idx(r), Idx(r) + 1}
          /\ Pressed(r, "back")
                => requests'[r].view.current_index \in {Idx(r), Idx(r) - 1}
          /\ requests'[r].view.current_index - Idx(r) \in {-1, 0, 1}]_vars

\* Next handled at the second of four items
C17_Witness ==
    /\ 1 \in WithView
    /\ N(1) = 4
    /\ Idx(1) = 2
    /\ interaction.button = "next"
    /\ interaction.edit.embed.title.position = 3

\* one press applied to index i of a carousel of n items
StepOf(button, i, n) ==
    IF button = "next" THEN (IF i < n - 1 THEN i + 1 ELSE i)
    ELSE (IF i > 0 THEN i - 1 ELSE i)

\* the presses of `log` applied one at a time, in order, from index 0
RECURSIVE Replay(_, _)
Replay(log, n) ==
    IF log = <<>> THEN 0
    ELSE StepOf(log[Len(log)].button, Replay(SubSeq(log, 1, Len(log) - 1), n), n)

\* C18: presses arriving concurrently on one carousel are serializable: the
\* index always equals the presses handled so far applied one at a time in
\* the order their callbacks ran, and every press that arrived is either
\* still waiting or in that order exactly once (none lost, none twice).
C18_PressesAreSerializable ==
    \A r \in WithView :
        LET log == interaction.log
            arrived == interaction.arrived
        IN  /\ Idx(r) = Replay(log, N(r))
            /\ \A i, j \in 1..Len(log) : log[i].id = log[j].id => i = j
            /\ {log[i].id : i \in 1..Len(log)} \cup {arrived[i].id : i \in 1..Len(arrived)}
                  = 1..(Len(log) + Len(arrived))
            /\ {log[i].id : i \in 1..Len(log)} \cap {arrived[i].id : i \in 1..Len(arrived)}
                  = {}

\* two viewers pressed Next while the carousel showed its first item; both
\* callbacks have run, the later press first, and both edits are in flight
C18_Witness ==
    /\ 1 \in WithView
    /\ Len(interaction.log) = 2
    /\ interaction.log[1].button = "next" /\ interaction.log[2].button = "next"
    /\ interaction.log[1].id = 2 /\ interaction.log[2].id = 1
    /\ Len(interaction.awaiting) = 2
    /\ Idx(1) = 2

\* the step ran the callback of a press of `button` on request r's carousel
Handled(r, button) ==
    /\ Len(interaction'.log) = Len(interaction.log) + 1
    /\ interaction'.request = r
    /\ interaction'.button = button

\* C19: Back handled at index 0, or Next handled at index N-1 (a press that
\* arrived while the button was still enabled included), changes neither the
\* index nor the flags and issues no edit; an edit is issued only by a press
\* whose callback changed the index.
C19_BoundaryPressIsSilent ==
    [][\A r \in WithView :
          /\ ((Handled(r, "back") /\ Idx(r) = 0) \/ (Handled(r, "next") /\ Idx(r) = N(r) - 1))
                => /\ requests'[r].view = requests[r].view
                   /\ interaction'.awaiting = interaction.awaiting
                   /\ interaction'.edit = interaction.edit
          /\ Len(interaction'.awaiting) > Len(interaction.awaiting)
                => /\ Handled(r, "back") \/ Handled(r, "next")
                   /\ requests'[r].view.current_index # Idx(r)]_vars

\* two viewers pressed Next on the first of two items; the second callback to
\* run found the carousel at its last item and issued nothing
C19_Witness ==
    /\ 1 \in WithView
    /\ N(1) = 2
    /\ Idx(1) = 1
    /\ Len(interaction.log) = 2
    /\ interaction.log[1] = [id |-> 2, button |-> "next"]
    /\ interaction.log[2] = [id |-> 1, button |-> "next"]
    /\ Len(interaction.awaiting) = 1
    /\ interaction.edit = NoEdit

\* only Next presses have been handled so far
OnlyNextSoFar == interaction.button # "back"

\* C20: every item is navigable: every index of 0..N-1 is visited; while Next
\* presses, and no Back press, keep being handled the index reaches N-1 and
\* then stays there with Next disabled; and Back presses that keep being
\* handled bring the index to 0, where it stays with Back disabled.
C20_EveryItemIsNavigable ==
    /\ \A i \in 0..(MaxImages - 1) : <>(N(1) <= i \/ Idx(1) = i)
    /\ <>(OnlyNextSoFar /\ Idx(1) = N(1) - 1 /\ requests[1].view.next_disabled)
    /\ [][(OnlyNextSoFar' /\ Idx(1) = N(1) - 1) =>
             /\ requests'[1].view.current_index = N(1) - 1
             /\ requests'[1].view.next_disabled]_vars
    /\ <>[](Idx(1) = 0 /\ requests[1].view.back_disabled)

\* four items paged through to the last and all the way back to the first
C20_Witness ==
    /\ 1 \in WithView
    /\ N(1) = 4
    /\ Idx(1) = 0
    /\ requests[1].view.back_disabled
    /\ interaction.button = "back"
    /\ interaction.edit = DisplayOf(1, 0)

=============================================================================
